---- MODULE Spec2Model ----
(***************************************************************************)
(* The profile cache of the crypto.me backend (backend/app.py): the table  *)
(* cached_profiles, the two handlers GET /profile/{ens_name} and           *)
(* PUT /profile/{ens_name}, and the SQLAlchemy session each request works  *)
(* through.  A request advances one database statement at a time, so that  *)
(* requests served by different workers interleave at statement level.     *)
(***************************************************************************)
EXTENDS Integers, Sequences, FiniteSets, TLC

VARIABLES store, clock, req, log, before, arrived

vars == <<store, clock, req, log, before, arrived>>

(***************************************************************************)
(* Bounds of the model.                                                    *)
(***************************************************************************)
\* clock ticks in one hour: the resolution of datetime.utcnow() in the model
TicksPerHour == 2
\* the clock stops advancing here
MaxClock == 3
\* requests the concurrent workers take in one behaviour
MaxArrivals == 2
\* the request slots (requests that may be in flight together)
Reqs == {"r1", "r2"}

\* the ENS names requested: two keys that differ only in case
Names == {"alice.eth", "Alice.eth"}

(***************************************************************************)
(* Profile documents.                                                      *)
(***************************************************************************)
\* str.lower() on the names of the model
Lower(s) == IF s = "Alice.eth" THEN "alice.eth" ELSE s

\* hashlib.md5(..).hexdigest(): an injective stand-in for the digest
MD5Hex(s) == "md5(" \o s \o ")"

fetch_farcaster_stats(ens_name) ==
    [followers |-> 1000, following |-> 500, posts |-> 250]

\* fetch_profile_data that names the document by the lower-cased name it hashes
fetch_profile_data_LowerName(ens_name) ==
    [ens_name |-> Lower(ens_name),
     avatar |-> "https://www.gravatar.com/avatar/"
                  \o MD5Hex(Lower(ens_name) \o "@example.com")
                  \o "?d=identicon&s=200",
     farcaster_stats |-> fetch_farcaster_stats(ens_name)]

fetch_profile_data(ens_name) ==
    [ens_name |-> ens_name,
     avatar |-> "https://www.gravatar.com/avatar/"
                  \o MD5Hex(Lower(ens_name) \o "@example.com")
                  \o "?d=identicon&s=200",
     farcaster_stats |-> fetch_farcaster_stats(ens_name)]

\* new_profile_data of update_profile
DefaultProfile(ens_name) ==
    [ens_name |-> ens_name,
     avatar |-> "https://avatars.dicebear.com/api/identicon/" \o ens_name \o ".svg",
     farcaster_stats |-> [followers |-> 0, following |-> 0, posts |-> 0]]

\* no document (a response without one, a local not yet assigned)
NoDoc == [ens_name |-> "", avatar |-> "", farcaster_stats |-> [followers |-> 0, following |-> 0, posts |-> 0]]

\* the JSON bodies PUT is called with
EmptyFields == [k \in {} |-> ""]

StatsBody == [followers |-> 999, following |-> 999, posts |-> 999]

FieldsSet ==
    {       [avatar |-> "http://x/y.png"],
      [avatar |-> "http://x/y.png", farcaster_stats |-> StatsBody],
      [farcaster_stats |-> StatsBody, ens_name |-> "mallory.eth"] }

allowed_fields == {"avatar"}

\* for field in allowed_fields: if field in profile_update: data[field] = profile_update[field]
ApplyAllowed(data, profile_update) ==
    [k \in DOMAIN data \cup (allowed_fields \cap DOMAIN profile_update) |->
        IF k \in allowed_fields /\ k \in DOMAIN profile_update
        THEN profile_update[k]
        ELSE data[k]]

(***************************************************************************)
(* The table cached_profiles and the freshness rule.                       *)
(***************************************************************************)
\* timedelta(hours=1), in ticks
TTL == 1 * TicksPerHour

NoRow == [id |-> 0, ens_name |-> "", profile_data |-> NoDoc, last_updated |-> -1]

\* db.query(CachedProfile).filter(CachedProfile.ens_name == ens_name)
Matching(ens_name) == {row \in store : row.ens_name = ens_name}

\* get_cached_profile with a filter that matches no row
get_cached_profile_Miss(ens_name) == {NoRow}

\* .first(): a matching row, or None
get_cached_profile(ens_name) ==
    IF Matching(ens_name) = {} THEN {NoRow} ELSE Matching(ens_name)

\* IsFresh with >= for >: a record exactly one hour old counts as fresh
IsFresh_Inclusive(cached, now) == cached # NoRow /\ cached.last_updated >= now - TTL

\* IsFresh with the comparison turned round
IsFresh_Reversed(cached, now) == cached # NoRow /\ cached.last_updated < now - TTL

\* cached_profile and cached_profile.last_updated > datetime.utcnow() - timedelta(hours=1)
IsFresh(cached, now) == cached # NoRow /\ cached.last_updated > now - TTL

\* UniqueViolation without the unique index
UniqueViolation_NoIndex(ens_name) == FALSE

\* ens_name = Column(String, unique=True): an INSERT of a name already there fails
UniqueViolation(ens_name) == \E row \in store : row.ens_name = ens_name

\* id = Column(Integer, primary_key=True): the next key of the sequence
NextId == Cardinality(store) + 1

RowById(id) == CHOOSE row \in store : row.id = id

(***************************************************************************)
(* The session's object (its identity map holds at most one row here).     *)
(*   none        no object                                                 *)
(*   pending     db.add()ed, not yet INSERTed                              *)
(*   persistent  loaded from a row                                         *)
(*   expired     persistent with its attributes unloaded (after a commit)  *)
(* dirty: the attributes an attribute-set event has marked for the UPDATE. *)
(***************************************************************************)
NoObj == [state |-> "none", id |-> 0, ens_name |-> "", profile_data |-> NoDoc,
          last_updated |-> -1, dirty |-> {}]

Loaded(row) == [state |-> "persistent", id |-> row.id, ens_name |-> row.ens_name,
                profile_data |-> row.profile_data, last_updated |-> row.last_updated,
                dirty |-> {}]

\* a query returns the object the identity map already holds for the row
Attach(obj, row) ==
    IF obj.state = "persistent" /\ obj.id = row.id THEN obj ELSE Loaded(row)

\* NewObj keyed by the lower-cased name
NewObj_LowerKey(ens_name, profile_data) ==
    [state |-> "pending", id |-> 0, ens_name |-> Lower(ens_name),
     profile_data |-> profile_data, last_updated |-> -1, dirty |-> {}]

\* CachedProfile(ens_name=.., profile_data=..); db.add(..): last_updated is left to its default
NewObj(ens_name, profile_data) ==
    [state |-> "pending", id |-> 0, ens_name |-> ens_name, profile_data |-> profile_data,
     last_updated |-> -1, dirty |-> {}]

\* obj.attr = value: an attribute-set event, which marks the attribute modified
SetAttr(obj, attr, value) == [obj EXCEPT ![attr] = value, !.dirty = @ \cup {attr}]

\* obj.profile_data[field] = value: the dict held by the object is changed in place.
\* profile_data is a plain Column(JSON), not a MutableDict: no attribute-set event
\* fires, so the attribute is not marked modified and the flush leaves it out of
\* the UPDATE.
MutateInPlace(obj, profile_update) ==
    [obj EXCEPT !.profile_data = ApplyAllowed(@, profile_update)]

\* an expired object reloads its attributes from its row when one is read
Refreshed(obj) == IF obj.state = "expired" THEN Loaded(RowById(obj.id)) ELSE obj

\* sessionmaker's expire_on_commit (left at its default, True): after a commit the
\* object's attributes are unloaded, and the next read of one reloads the row
Expired(obj, id) == [NoObj EXCEPT !.state = "expired", !.id = id, !.ens_name = obj.ens_name]

\* Updated without the write of last_updated
Updated_DataOnly(row, obj) ==
    [row EXCEPT !.profile_data = IF "profile_data" \in obj.dirty THEN obj.profile_data ELSE @]

\* the row an UPDATE leaves: only the modified attributes are written
Updated(row, obj) ==
    [row EXCEPT !.profile_data = IF "profile_data" \in obj.dirty THEN obj.profile_data ELSE @,
                !.last_updated = IF "last_updated" \in obj.dirty THEN obj.last_updated ELSE @]

\* the table after the session's flush and commit (the INSERT takes last_updated's
\* default, datetime.utcnow)
Flushed(obj, now) ==
    CASE obj.state = "pending" ->
            store \cup {[id |-> NextId, ens_name |-> obj.ens_name,
                         profile_data |-> obj.profile_data, last_updated |-> now]}
      [] obj.state \in {"persistent", "expired"} /\ obj.dirty # {} ->
            {IF row.id = obj.id THEN Updated(row, obj) ELSE row : row \in store}
      [] OTHER -> store

\* the flush raises IntegrityError
FlushRaises(obj) == obj.state = "pending" /\ UniqueViolation(obj.ens_name)

\* statements the flush sends
FlushWrites(obj) == IF obj.state = "pending" \/ obj.dirty # {} THEN 1 ELSE 0

AfterCommit(obj) ==
    IF obj.state = "pending" THEN Expired(obj, NextId)
    ELSE IF obj.state = "none" THEN NoObj ELSE Expired(obj, obj.id)

(***************************************************************************)
(* Requests.                                                               *)
(***************************************************************************)
IdleReq ==
    [pc |-> "idle", kind |-> "none", ens_name |-> "", profile_update |-> EmptyFields,
     open |-> FALSE, obj |-> NoObj, profile_data |-> NoDoc,
     status |-> 0, body |-> NoDoc, writes |-> 0, fetches |-> 0,
     db |-> 0, now |-> 0, raised |-> FALSE]

\* the client's view while no request is in flight
NoArrival == [store |-> {}, clock |-> 0]

Init ==
    /\ store = {}
    /\ clock = 0
    /\ req = [r \in Reqs |-> IdleReq]
    /\ log = <<>>
    /\ before = NoArrival
    /\ arrived = 0

\* datetime.utcnow() advances
Tick ==
    /\ clock < MaxClock
    /\ clock' = clock + 1
    /\ UNCHANGED <<store, req, log, before, arrived>>

SessionIds == 1..Cardinality(Reqs)

\* one session object for the whole process
SessionLocal_Singleton(r) == CHOOSE db \in SessionIds : \A other \in SessionIds : db <= other

\* SessionLocal(): each call constructs a new session object; the object made for
\* request r is named by r's place among the requests
SessionLocal(r) == IF r = "r1" THEN 1 ELSE 2

\* a request arrives; get_db opens its session
Begin(r) ==
    /\ req[r].pc = "idle"
    /\ \E ens_name \in Names :
         \/ req' = [req EXCEPT ![r] =
                      [IdleReq EXCEPT !.pc = "get_profile", !.kind = "get",
                                      !.ens_name = ens_name, !.open = TRUE,
                                      !.db = SessionLocal(r)]]
         \/ \E profile_update \in FieldsSet :
              req' = [req EXCEPT ![r] =
                        [IdleReq EXCEPT !.pc = "update_profile", !.kind = "put",
                                        !.ens_name = ens_name,
                                        !.profile_update = profile_update,
                                        !.open = TRUE, !.db = SessionLocal(r)]]
    /\ UNCHANGED <<store, clock>>

\* GetLookup that joins a refresh of the same name already under way
GetLookup_SingleFlight(r) ==
    /\ req[r].pc = "get_profile"
    /\ \E cached \in get_cached_profile(req[r].ens_name) :
         IF IsFresh(cached, clock)
         THEN req' = [req EXCEPT ![r].obj = Loaded(cached),
                                 ![r].status = 200,
                                 ![r].body = cached.profile_data,
                                 ![r].pc = "close"]
         ELSE IF \E q \in Reqs \ {r} : /\ req[q].ens_name = req[r].ens_name
                                        /\ req[q].pc \in {"update_cache", "cache_commit"}
         THEN req' = [req EXCEPT ![r].status = 200,
                                 ![r].body = fetch_profile_data(req[r].ens_name),
                                 ![r].pc = "close"]
         ELSE req' = [req EXCEPT ![r].obj = IF cached = NoRow THEN NoObj ELSE Loaded(cached),
                                 ![r].profile_data = fetch_profile_data(req[r].ens_name),
                                 ![r].fetches = @ + 1,
                                 ![r].pc = "update_cache"]
    /\ UNCHANGED <<store, clock, log, before, arrived>>

\* GetLookup that evicts the stale record it found
GetLookup_EvictsStale(r) ==
    /\ req[r].pc = "get_profile"
    /\ \E cached \in get_cached_profile(req[r].ens_name) :
         IF IsFresh(cached, clock)
         THEN /\ req' = [req EXCEPT ![r].obj = Loaded(cached),
                                    ![r].status = 200,
                                    ![r].body = cached.profile_data,
                                    ![r].pc = "close"]
              /\ store' = store
         ELSE /\ req' = [req EXCEPT ![r].profile_data = fetch_profile_data(req[r].ens_name),
                                    ![r].fetches = @ + 1,
                                    ![r].pc = "update_cache"]
              /\ store' = store \ {cached}
    /\ UNCHANGED <<clock, log, before, arrived>>

\* get_profile: the lookup and the freshness test; a miss calls fetch_profile_data
GetLookup(r) ==
    /\ req[r].pc = "get_profile"
    /\ \E cached \in get_cached_profile(req[r].ens_name) :
         IF IsFresh(cached, clock)
         THEN req' = [req EXCEPT ![r].obj = Loaded(cached),
                                 ![r].status = 200,
                                 ![r].body = cached.profile_data,
                                 ![r].pc = "close"]
         ELSE req' = [req EXCEPT ![r].obj = IF cached = NoRow THEN NoObj ELSE Loaded(cached),
                                 ![r].profile_data = fetch_profile_data(req[r].ens_name),
                                 ![r].fetches = @ + 1,
                                 ![r].pc = "update_cache"]
    /\ UNCHANGED <<store, clock, log, before, arrived>>

\* UpdateCacheLookup that keeps the avatar of the record it updates
UpdateCacheLookup_KeepsAvatar(r) ==
    /\ req[r].pc = "update_cache"
    /\ \E cached \in get_cached_profile(req[r].ens_name) :
         req' = [req EXCEPT
                   ![r].obj =
                       IF cached # NoRow
                       THEN SetAttr(SetAttr(Attach(req[r].obj, cached), "profile_data",
                                            [req[r].profile_data EXCEPT
                                               !.avatar = cached.profile_data.avatar]),
                                    "last_updated", clock)
                       ELSE NewObj(req[r].ens_name, req[r].profile_data),
                   ![r].now = IF cached # NoRow THEN clock ELSE @,
                   ![r].pc = "cache_commit"]
    /\ UNCHANGED <<store, clock, log, before, arrived>>

\* update_cache: the second lookup, then the assignments or db.add
UpdateCacheLookup(r) ==
    /\ req[r].pc = "update_cache"
    /\ \E cached \in get_cached_profile(req[r].ens_name) :
         req' = [req EXCEPT
                   ![r].obj =
                       IF cached # NoRow
                       THEN SetAttr(SetAttr(Attach(req[r].obj, cached),
                                            "profile_data", req[r].profile_data),
                                    "last_updated", clock)
                       ELSE NewObj(req[r].ens_name, req[r].profile_data),
                   ![r].now = IF cached # NoRow THEN clock ELSE @,
                   ![r].pc = "cache_commit"]
    /\ UNCHANGED <<store, clock, log, before, arrived>>

\* UpdateCacheCommit without the except clause: the IntegrityError leaves the handler
UpdateCacheCommit_Uncaught(r) ==
    /\ req[r].pc = "cache_commit"
    /\ IF FlushRaises(req[r].obj)
       THEN /\ store' = store
            /\ req' = [req EXCEPT ![r].obj = NoObj, ![r].raised = TRUE,
                                  ![r].status = 500, ![r].pc = "close"]
       ELSE /\ store' = Flushed(req[r].obj, clock)
            /\ req' = [req EXCEPT ![r].obj = AfterCommit(req[r].obj),
                                  ![r].writes = @ + FlushWrites(req[r].obj),
                                  ![r].status = 200,
                                  ![r].body = req[r].profile_data,
                                  ![r].pc = "close"]
    /\ UNCHANGED <<clock, log, before, arrived>>

\* update_cache: db.commit(); an exception is caught, rolled back and dropped;
\* get_profile then returns profile_data
UpdateCacheCommit(r) ==
    /\ req[r].pc = "cache_commit"
    /\ IF FlushRaises(req[r].obj)
       THEN /\ store' = store
            /\ req' = [req EXCEPT ![r].obj = NoObj,
                                  ![r].raised = TRUE,
                                  ![r].status = 200,
                                  ![r].body = req[r].profile_data,
                                  ![r].pc = "close"]
       ELSE /\ store' = Flushed(req[r].obj, clock)
            /\ req' = [req EXCEPT ![r].obj = AfterCommit(req[r].obj),
                                  ![r].writes = @ + FlushWrites(req[r].obj),
                                  ![r].status = 200,
                                  ![r].body = req[r].profile_data,
                                  ![r].pc = "close"]
    /\ UNCHANGED <<clock, log, before, arrived>>

\* update_profile: the lookup; a miss db.add()s the default profile
PutLookup(r) ==
    /\ req[r].pc = "update_profile"
    /\ \E cached \in get_cached_profile(req[r].ens_name) :
         IF cached = NoRow
         THEN req' = [req EXCEPT
                        ![r].obj = NewObj(req[r].ens_name, DefaultProfile(req[r].ens_name)),
                        ![r].pc = "put_insert"]
         ELSE req' = [req EXCEPT ![r].obj = Loaded(cached), ![r].pc = "put_apply"]
    /\ UNCHANGED <<store, clock, log, before, arrived>>

\* update_profile: the db.commit() of the new profile; an exception leaves the handler
PutInsert(r) ==
    /\ req[r].pc = "put_insert"
    /\ IF FlushRaises(req[r].obj)
       THEN /\ store' = store
            /\ req' = [req EXCEPT ![r].obj = NoObj, ![r].raised = TRUE,
                                  ![r].status = 500, ![r].pc = "close"]
       ELSE /\ store' = Flushed(req[r].obj, clock)
            /\ req' = [req EXCEPT ![r].obj = AfterCommit(req[r].obj),
                                  ![r].writes = @ + FlushWrites(req[r].obj),
                                  ![r].pc = "put_apply"]
    /\ UNCHANGED <<clock, log, before, arrived>>

\* PutApply that sets last_updated only when an allowed field was written
PutApply_StampIfTouched(r) ==
    /\ req[r].pc = "put_apply"
    /\ LET touched == allowed_fields \cap DOMAIN req[r].profile_update # {}
           obj == IF touched THEN Refreshed(req[r].obj) ELSE req[r].obj
       IN req' = [req EXCEPT
                    ![r].obj = IF touched
                               THEN SetAttr(MutateInPlace(obj, req[r].profile_update),
                                            "last_updated", clock)
                               ELSE obj,
                    ![r].now = clock,
                    ![r].pc = "put_commit"]
    /\ UNCHANGED <<store, clock, log, before, arrived>>

\* update_profile: the allowed fields are written into profile_data, last_updated is set
PutApply(r) ==
    /\ req[r].pc = "put_apply"
    /\ LET touched == allowed_fields \cap DOMAIN req[r].profile_update # {}
           obj == IF touched THEN Refreshed(req[r].obj) ELSE req[r].obj
       IN req' = [req EXCEPT
                    ![r].obj = SetAttr(IF touched
                                       THEN MutateInPlace(obj, req[r].profile_update)
                                       ELSE obj,
                                       "last_updated", clock),
                    ![r].now = clock,
                    ![r].pc = "put_commit"]
    /\ UNCHANGED <<store, clock, log, before, arrived>>

\* update_profile: the final db.commit()
PutCommit(r) ==
    /\ req[r].pc = "put_commit"
    /\ store' = Flushed(req[r].obj, clock)
    /\ req' = [req EXCEPT ![r].obj = AfterCommit(req[r].obj),
                          ![r].writes = @ + FlushWrites(req[r].obj),
                          ![r].pc = "put_return"]
    /\ UNCHANGED <<clock, log, before, arrived>>

\* update_profile: the response reads cached_profile.profile_data, which reloads it
PutReturn(r) ==
    /\ req[r].pc = "put_return"
    /\ req' = [req EXCEPT ![r].obj = Refreshed(req[r].obj),
                          ![r].status = 200,
                          ![r].body = Refreshed(req[r].obj).profile_data,
                          ![r].pc = "close"]
    /\ UNCHANGED <<store, clock, log, before, arrived>>

\* Close without the finally clause: the session is closed only after a handler
\* that returned
Close_NoFinally(r) ==
    /\ req[r].pc = "close"
    /\ req' = [req EXCEPT ![r] = IF req[r].status = 200 THEN IdleReq
                                 ELSE [IdleReq EXCEPT !.open = TRUE, !.db = req[r].db]]
    /\ UNCHANGED <<store, clock>>

\* get_db's finally: db.close(); the response is delivered
Close(r) ==
    /\ req[r].pc = "close"
    /\ req' = [req EXCEPT ![r] = IdleReq]
    /\ UNCHANGED <<store, clock>>

Step(r) ==
    \/ GetLookup(r)
    \/ UpdateCacheLookup(r)
    \/ UpdateCacheCommit(r)
    \/ PutLookup(r)
    \/ PutInsert(r)
    \/ PutApply(r)
    \/ PutCommit(r)
    \/ PutReturn(r)

(***************************************************************************)
(* Failing writes: the database refuses a commit (connection lost, disk    *)
(* full, ...).  The transaction is not applied.                            *)
(***************************************************************************)
\* UpdateCacheCommitFails without the except clause
UpdateCacheCommitFails_Uncaught(r) ==
    /\ req[r].pc = "cache_commit"
    /\ req' = [req EXCEPT ![r].obj = NoObj, ![r].raised = TRUE,
                          ![r].status = 500, ![r].pc = "close"]
    /\ UNCHANGED <<store, clock, log, before, arrived>>

\* update_cache: db.commit() raises; the except clause prints, rolls back and
\* returns, and get_profile returns profile_data
UpdateCacheCommitFails(r) ==
    /\ req[r].pc = "cache_commit"
    /\ req' = [req EXCEPT ![r].obj = NoObj,
                          ![r].raised = TRUE,
                          ![r].status = 200,
                          ![r].body = req[r].profile_data,
                          ![r].pc = "close"]
    /\ UNCHANGED <<store, clock, log, before, arrived>>

\* update_profile: the db.commit() of the new profile raises; nothing catches it
PutInsertFails(r) ==
    /\ req[r].pc = "put_insert"
    /\ req' = [req EXCEPT ![r].obj = NoObj, ![r].raised = TRUE,
                          ![r].status = 500, ![r].pc = "close"]
    /\ UNCHANGED <<store, clock, log, before, arrived>>

\* update_profile: the final db.commit() raises; nothing catches it
PutCommitFails(r) ==
    /\ req[r].pc = "put_commit"
    /\ req' = [req EXCEPT ![r].obj = NoObj, ![r].raised = TRUE,
                          ![r].status = 500, ![r].pc = "close"]
    /\ UNCHANGED <<store, clock, log, before, arrived>>

Fault(r) ==
    \/ UpdateCacheCommitFails(r)
    \/ PutInsertFails(r)
    \/ PutCommitFails(r)

(***************************************************************************)
(* The client's view of a single worker: the table and the time when the   *)
(* request in flight arrived, and the last two requests answered.          *)
(***************************************************************************)
Entry(r) ==
    [kind |-> req[r].kind, ens_name |-> req[r].ens_name,
     profile_update |-> req[r].profile_update,
     status |-> req[r].status, body |-> req[r].body]

Recorded(r) ==
    IF Len(log) < 2 THEN Append(log, Entry(r)) ELSE Append(Tail(log), Entry(r))

Arrive(r) ==
    /\ Begin(r)
    /\ before' = [store |-> store, clock |-> clock]
    /\ UNCHANGED <<log, arrived>>

Answer(r) ==
    /\ Close(r)
    /\ log' = Recorded(r)
    /\ before' = NoArrival
    /\ UNCHANGED arrived

\* one worker: requests are served one after the other
Next == Tick \/ \E r \in {"r1"} : Arrive(r) \/ Step(r) \/ Answer(r)

Spec == Init /\ [][Next]_vars

ArriveConc(r) ==
    /\ arrived < MaxArrivals
    /\ Begin(r)
    /\ arrived' = arrived + 1
    /\ UNCHANGED <<log, before>>

AnswerConc(r) == Close(r) /\ UNCHANGED <<log, before, arrived>>

\* requests served by concurrent workers
NextConc == Tick \/ \E r \in Reqs : ArriveConc(r) \/ Step(r) \/ AnswerConc(r)

SpecConc == Init /\ [][NextConc]_vars

\* the last request answered, with the clock value its handler read and the age
\* class of the record it found on arrival
TimedEntry(r) ==
    [kind |-> req[r].kind, ens_name |-> req[r].ens_name,
     profile_update |-> req[r].profile_update,
     status |-> req[r].status, at |-> req[r].now,
     found |-> LET rows == {row \in before.store : row.ens_name = req[r].ens_name}
               IN IF rows = {} THEN "absent"
                  ELSE IF \E row \in rows : IsFresh(row, before.clock)
                       THEN "fresh" ELSE "stale"]

AnswerFault(r) ==
    /\ Close(r)
    /\ log' = <<TimedEntry(r)>>
    /\ before' = NoArrival
    /\ UNCHANGED arrived

\* one worker whose commits may fail
NextFault == Tick \/ \E r \in {"r1"} : Arrive(r) \/ Step(r) \/ Fault(r) \/ AnswerFault(r)

SpecFault == Init /\ [][NextFault]_vars

\* concurrent workers whose commits may fail, within one tick of the clock (what
\* get_db does with the session does not depend on the time)
NextFair == \E r \in Reqs : ArriveConc(r) \/ Step(r) \/ Fault(r) \/ AnswerConc(r)

\* a handler that has started keeps running until its response is delivered
Fairness == \A r \in Reqs : WF_vars(Step(r) \/ Fault(r) \/ AnswerConc(r))

SpecFair == Init /\ [][NextFair]_vars /\ Fairness

(***************************************************************************)
(* Properties.  Under Spec one worker serves the requests, so the request  *)
(* at "close" is the one that arrived at before.clock on the table         *)
(* before.store, and log holds the requests answered just before it.       *)
(***************************************************************************)
Has(table, ens_name) == \E row \in table : row.ens_name = ens_name

RowOf(table, ens_name) == CHOOSE row \in table : row.ens_name = ens_name

\* request r has its response and is about to deliver it
Answered(r, kind, ens_name) ==
    req[r].pc = "close" /\ req[r].kind = kind /\ req[r].ens_name = ens_name

\* the record the request in flight found on arrival is still younger than the TTL
WithinTTL(ens_name) ==
    /\ Has(before.store, ens_name)
    /\ clock - RowOf(before.store, ens_name).last_updated < TTL

Last == log[Len(log)]

Previous == log[Len(log) - 1]

\* GET, then PUT {avatar: A}, then GET of the same name
GetPutGet(r, ens_name) ==
    /\ Answered(r, "get", ens_name)
    /\ Len(log) >= 2
    /\ Previous.kind = "get" /\ Previous.ens_name = ens_name /\ Previous.status = 200
    /\ Last.kind = "put" /\ Last.ens_name = ens_name /\ Last.status = 200
    /\ DOMAIN Last.profile_update = {"avatar"}
    /\ WithinTTL(ens_name)

\* C1: GET, then PUT {avatar: A}, then a GET less than an hour after the PUT:
\* the second GET returns avatar A and the farcaster_stats the first GET returned.
C1_PutThenGetReturnsAvatar ==
    \A r \in Reqs, ens_name \in Names :
        GetPutGet(r, ens_name) =>
            /\ req[r].body.avatar = Last.profile_update.avatar
            /\ req[r].body.farcaster_stats = Previous.body.farcaster_stats

\* C1 is reached: the second GET of GET, PUT {avatar: A}, GET has its response
C1_Reached == \E r \in Reqs, ens_name \in Names : GetPutGet(r, ens_name)

\* C2: get_profile serves the stored profile_data without refetching exactly when a
\* record exists and now - last_updated < 1 hour; otherwise (no record, or an age of
\* 1 hour or more) it calls the Profile Source and stores what it returned.
C2_FreshIffUnderTTL ==
    [][\A r \in Reqs :
         LET ens_name == req[r].ens_name
             served == req'[r].pc = "close" /\ req'[r].fetches = 0
         IN /\ (req[r].pc = "get_profile" /\ req'[r].pc # "get_profile") =>
                  /\ served <=> /\ Has(store, ens_name)
                                /\ clock - RowOf(store, ens_name).last_updated < TTL
                  /\ served => /\ req'[r].status = 200
                               /\ req'[r].body = RowOf(store, ens_name).profile_data
                               /\ store' = store
                  /\ ~served => /\ req'[r].pc = "update_cache"
                                /\ req'[r].fetches = 1
                                /\ req'[r].profile_data = fetch_profile_data(ens_name)
            /\ (req[r].pc = "cache_commit" /\ req'[r].pc # "cache_commit") =>
                  /\ Has(store', ens_name)
                  /\ RowOf(store', ens_name).profile_data = req[r].profile_data
                  /\ req'[r].writes = 1
      ]_vars

\* a record exactly one hour old was looked up and found stale
C2_ExactlyOneHourStale ==
    \E r \in Reqs :
        /\ req[r].pc = "update_cache"
        /\ before.clock = clock
        /\ Has(store, req[r].ens_name)
        /\ clock - RowOf(store, req[r].ens_name).last_updated = TTL

\* a GET of the name the last answered request was a GET of, within the TTL
GetGet(r, ens_name) ==
    /\ Answered(r, "get", ens_name)
    /\ Len(log) >= 1
    /\ Last.kind = "get" /\ Last.ens_name = ens_name /\ Last.status = 200
    /\ WithinTTL(ens_name)

\* C3: a second GET made while the record is less than an hour old returns the
\* document the first GET returned and leaves the table as it found it.
C3_SecondGetWithinTTL ==
    \A r \in Reqs, ens_name \in Names :
        GetGet(r, ens_name) =>
            /\ req[r].status = 200
            /\ req[r].body = Last.body
            /\ req[r].writes = 0
            /\ store = before.store

\* the second GET has its response, some time after the record was written
C3_Reached ==
    \E r \in Reqs, ens_name \in Names :
        /\ GetGet(r, ens_name)
        /\ before.clock > RowOf(before.store, ens_name).last_updated

\* a GET that found, on arrival, a record at least an hour old
StaleGet(r, ens_name) ==
    /\ Answered(r, "get", ens_name)
    /\ Has(before.store, ens_name)
    /\ before.clock - RowOf(before.store, ens_name).last_updated >= TTL

\* C4: a GET of a record whose TTL has elapsed calls the Profile Source once and
\* writes once: the record holds the synthesized document and the time of the call,
\* the response is that document, and no other record changes.
C4_StaleGetRefetchesOnce ==
    \A r \in Reqs, ens_name \in Names :
        StaleGet(r, ens_name) =>
            /\ req[r].fetches = 1
            /\ req[r].writes = 1
            /\ req[r].status = 200
            /\ req[r].body = fetch_profile_data(ens_name)
            /\ Cardinality(Matching(ens_name)) = 1
            /\ RowOf(store, ens_name).profile_data = fetch_profile_data(ens_name)
            /\ RowOf(store, ens_name).last_updated \in before.clock .. clock
            /\ {row \in store : row.ens_name # ens_name}
                 = {row \in before.store : row.ens_name # ens_name}

\* the stale record held another document than the synthesized one
C4_Reached ==
    \E r \in Reqs, ens_name \in Names :
        /\ StaleGet(r, ens_name)
        /\ RowOf(before.store, ens_name).profile_data # fetch_profile_data(ens_name)

\* C5: the first GET on an empty table creates exactly one record, keyed by the
\* name asked for and stamped with the time of the call, and returns a document
\* whose ens_name is that name.
C5_FirstGetCreatesOneRecord ==
    \A r \in Reqs, ens_name \in Names :
        (Answered(r, "get", ens_name) /\ before.store = {}) =>
            /\ Cardinality(store) = 1
            /\ \A row \in store : /\ row.ens_name = ens_name
                                   /\ row.last_updated \in before.clock .. clock
            /\ req[r].status = 200
            /\ req[r].body.ens_name = ens_name

\* the first GET, of the mixed-case name, has its response
C5_Reached ==
    \E r \in Reqs :
        /\ Answered(r, "get", "Alice.eth")
        /\ before.store = {}
        /\ store # {}

\* the document a PUT of ens_name starts from: the stored one, or the default
StartingDoc(ens_name) ==
    IF Has(before.store, ens_name)
    THEN RowOf(before.store, ens_name).profile_data
    ELSE DefaultProfile(ens_name)

\* C6: a PUT whose body holds avatar = X together with keys outside the allow-list
\* reports no error; afterwards the stored and the returned avatar are X, and every
\* other field of profile_data is what it was before the call.
C6_PutCopiesOnlyAvatar ==
    \A r \in Reqs, ens_name \in Names :
        ( /\ Answered(r, "put", ens_name)
          /\ "avatar" \in DOMAIN req[r].profile_update
          /\ DOMAIN req[r].profile_update # {"avatar"} ) =>
            /\ req[r].status = 200
            /\ Has(store, ens_name)
            /\ RowOf(store, ens_name).profile_data
                 = [StartingDoc(ens_name) EXCEPT !.avatar = req[r].profile_update.avatar]
            /\ req[r].body = RowOf(store, ens_name).profile_data

\* C7: a PUT of a name with no record creates the default record and applies the
\* allowed fields to it: the stored document is the default document, with avatar
\* replaced when the body holds avatar.
C7_PutCreatesDefaultThenApplies ==
    \A r \in Reqs, ens_name \in Names :
        (Answered(r, "put", ens_name) /\ ~Has(before.store, ens_name)) =>
            /\ req[r].status = 200
            /\ Cardinality(Matching(ens_name)) = 1
            /\ RowOf(store, ens_name).profile_data
                 = IF "avatar" \in DOMAIN req[r].profile_update
                   THEN [DefaultProfile(ens_name) EXCEPT
                           !.avatar = req[r].profile_update.avatar]
                   ELSE DefaultProfile(ens_name)

\* C8: every PUT stamps the record with the time of the call, also one whose body
\* holds no allow-listed key, which leaves profile_data as it was.
C8_PutBumpsLastUpdated ==
    \A r \in Reqs, ens_name \in Names :
        Answered(r, "put", ens_name) =>
            /\ req[r].status = 200
            /\ Cardinality(Matching(ens_name)) = 1
            /\ RowOf(store, ens_name).last_updated \in before.clock .. clock
            /\ (allowed_fields \cap DOMAIN req[r].profile_update = {}) =>
                  RowOf(store, ens_name).profile_data = StartingDoc(ens_name)

\* a PUT without an allow-listed key has stamped a record written earlier
C8_Reached ==
    \E r \in Reqs, ens_name \in Names :
        /\ Answered(r, "put", ens_name)
        /\ allowed_fields \cap DOMAIN req[r].profile_update = {}
        /\ Has(before.store, ens_name)
        /\ RowOf(before.store, ens_name).last_updated < before.clock

\* a PUT that repeats the PUT answered just before it
PutPut(r, ens_name) ==
    /\ Answered(r, "put", ens_name)
    /\ Len(log) >= 1
    /\ Last.kind = "put" /\ Last.ens_name = ens_name /\ Last.status = 200
    /\ Last.profile_update = req[r].profile_update

\* C9: the same PUT applied twice in a row leaves the profile_data, and returns the
\* document, that applying it once did.
C9_PutIdempotent ==
    \A r \in Reqs, ens_name \in Names :
        PutPut(r, ens_name) =>
            /\ req[r].status = 200
            /\ req[r].body = Last.body
            /\ Has(before.store, ens_name)
            /\ Cardinality(Matching(ens_name)) = 1
            /\ RowOf(store, ens_name).profile_data
                 = RowOf(before.store, ens_name).profile_data

\* the repeated PUT, with an avatar in its body, has its response
C9_Reached ==
    \E r \in Reqs, ens_name \in Names :
        /\ PutPut(r, ens_name)
        /\ "avatar" \in DOMAIN req[r].profile_update

\* C10: whatever the interleaving of GETs and PUTs, the table holds at most one
\* record per ens_name.
C10_OneRecordPerName ==
    \A ens_name \in Names : Cardinality(Matching(ens_name)) <= 1

\* a first-time request is about to INSERT a name another request has just inserted
C10_Reached ==
    \E r \in Reqs :
        /\ req[r].pc \in {"cache_commit", "put_insert"}
        /\ req[r].obj.state = "pending"
        /\ UniqueViolation(req[r].ens_name)

\* C11: no committed write lowers a record's last_updated, whatever the
\* interleaving of GET refreshes and PUTs on its name.
C11_LastUpdatedNeverDecreases ==
    [][\A row \in store : \A after \in store' :
          after.id = row.id => after.last_updated >= row.last_updated]_vars

\* Two requests on one name have both read the clock, at different ticks, and
\* both are about to commit their UPDATE.
C11_Reached ==
    \E r, q \in Reqs :
        /\ r # q
        /\ req[r].ens_name = req[q].ens_name
        /\ req[r].pc \in {"cache_commit", "put_commit"}
        /\ req[q].pc \in {"cache_commit", "put_commit"}
        /\ req[r].obj.state = "persistent" /\ req[q].obj.state = "persistent"
        /\ req[r].obj.last_updated < req[q].obj.last_updated

\* the request in flight saw one of its commits raise
WriteFailed(r) == req[r].pc = "close" /\ req[r].raised

\* the table now is the table on arrival plus the default record of ens_name
DefaultRecordAdded(ens_name) ==
    /\ ~Has(before.store, ens_name)
    /\ before.store \subseteq store
    /\ \E row \in store :
         /\ store = before.store \cup {row}
         /\ row.ens_name = ens_name
         /\ row.profile_data = DefaultProfile(ens_name)

\* C12 as stated: a failed store write leaves the table as the request found it and
\* the caller gets a normal response (for GET, the synthesized document).
C12_FailedWriteSwallowed ==
    \A r \in Reqs :
        WriteFailed(r) =>
            /\ store = before.store
            /\ req[r].status = 200
            /\ req[r].kind = "get" => req[r].body = fetch_profile_data(req[r].ens_name)

\* C12 amended: a failed write of GET's update_cache leaves the table as the request
\* found it and the caller gets the synthesized document with status 200; a failed
\* commit of PUT reaches the caller as an error, and of PUT's two commits only the
\* failed one is undone.
C12_GetSwallowsPutPropagates ==
    \A r \in Reqs :
        WriteFailed(r) =>
            IF req[r].kind = "get"
            THEN /\ store = before.store
                 /\ req[r].status = 200
                 /\ req[r].body = fetch_profile_data(req[r].ens_name)
            ELSE /\ req[r].status = 500
                 /\ req[r].body = NoDoc
                 /\ IF req[r].writes = 0 THEN store = before.store
                    ELSE DefaultRecordAdded(req[r].ens_name)

\* a PUT for an unknown name committed the default record and then saw its final
\* commit raise
C12_Reached ==
    \E r \in Reqs :
        /\ WriteFailed(r) /\ req[r].kind = "put"
        /\ req[r].writes = 1
        /\ store # before.store

\* C13: no step removes a record: a name that has a record before a step of any
\* request, succeeding or failing, in a sequence of any length, has one after it.
C13_RecordNeverDeleted ==
    [][\A ens_name \in Names : Has(store, ens_name) => Has(store', ens_name)]_vars

\* a request on a name that has a record saw its commit raise, and the record is
\* still there
C13_Reached ==
    \E r \in Reqs :
        /\ WriteFailed(r)
        /\ req[r].writes = 0
        /\ Has(store, req[r].ens_name)
        /\ RowOf(store, req[r].ens_name).last_updated < clock - TTL

\* the step is request r's commit in update_cache and it was applied
CacheCommitted(r) ==
    /\ req[r].pc = "cache_commit"
    /\ req'[r].pc = "close"
    /\ ~req'[r].raised

\* C14: get_profile has no guard against a second refresh: a GET that found no
\* fresh record always calls fetch_profile_data once and attempts a write, whatever
\* the other request is doing, and every applied commit of update_cache leaves the
\* record with the committing request's document and clock reading.
C14_LastCommitterWins ==
    [][\A r \in Reqs :
          /\ (/\ req[r].pc = "get_profile" /\ req'[r].pc # "get_profile"
              /\ \A cached \in get_cached_profile(req[r].ens_name) :
                    ~IsFresh(cached, clock)) =>
                 /\ req'[r].pc = "update_cache"
                 /\ req'[r].fetches = 1
                 /\ req'[r].profile_data = fetch_profile_data(req[r].ens_name)
          /\ CacheCommitted(r) =>
                 /\ Has(store', req[r].ens_name)
                 /\ RowOf(store', req[r].ens_name).profile_data = req[r].profile_data
                 /\ RowOf(store', req[r].ens_name).last_updated =
                        IF req[r].obj.state = "pending" THEN clock ELSE req[r].now
                 /\ req'[r].writes = 1]_vars

\* two GETs of one name both found no fresh record, both called fetch_profile_data
\* and both wrote: the first inserted the record, the second overwrote it
C14_Reached ==
    \E r, q \in Reqs :
        /\ r # q
        /\ Answered(r, "get", req[q].ens_name) /\ Answered(q, "get", req[r].ens_name)
        /\ req[r].fetches = 1 /\ req[q].fetches = 1
        /\ req[r].writes = 1 /\ req[q].writes = 1
        /\ ~req[r].raised /\ ~req[q].raised
        /\ req[r].obj.id = req[q].obj.id

\* request r is being handled
InFlight(r) == req[r].pc # "idle"

\* C15: a request in flight holds an open session that no other request in flight
\* holds; a request that has finished holds no open session; and every session that
\* is opened is closed later, whether the handler returns or raises.
C15_SessionPerRequestReleased ==
    /\ [](\A r \in Reqs : InFlight(r) => req[r].open /\ req[r].db \in SessionIds)
    /\ [](\A r, q \in Reqs : (r # q /\ InFlight(r) /\ InFlight(q)) => req[r].db # req[q].db)
    /\ [](\A r \in Reqs : ~InFlight(r) => ~req[r].open)
    /\ \A r \in Reqs : req[r].open ~> ~req[r].open

\* two requests are in flight, one of them leaving its handler with an exception
C15_Reached ==
    \E r, q \in Reqs :
        /\ r # q
        /\ req[r].pc = "close" /\ req[r].status = 500 /\ req[r].open
        /\ InFlight(q) /\ req[q].open

\* C16: every stored record's profile_data.ens_name is the record's key, whatever
\* GETs and PUTs (with any body, an ens_name field included) have run or are running.
C16_DocumentNamedByKey ==
    \A row \in store : row.profile_data.ens_name = row.ens_name

\* a PUT whose body carries another ens_name was applied to a record that a GET
\* had stored
C16_Reached ==
    \E r \in Reqs :
        /\ Answered(r, "put", req[r].ens_name)
        /\ req[r].status = 200
        /\ "ens_name" \in DOMAIN req[r].profile_update
        /\ req[r].profile_update.ens_name # req[r].ens_name
        /\ Has(store, req[r].ens_name)
        /\ RowOf(store, req[r].ens_name).profile_data.avatar
              = fetch_profile_data(req[r].ens_name).avatar

\* the only two requests so far are GETs of ens_name, in flight together, and both
\* have their response
FirstTimeGets(r, q, ens_name) ==
    /\ r # q
    /\ arrived = Cardinality({r, q})
    /\ Answered(r, "get", ens_name)
    /\ Answered(q, "get", ens_name)

\* C17: two concurrent first GETs of a name that has no record, in every
\* interleaving: both return the synthesized document with status 200, and when both
\* have finished the name has exactly one record, which holds that document.
C17_ConcurrentFirstGets ==
    \A r, q \in Reqs, ens_name \in Names :
        FirstTimeGets(r, q, ens_name) =>
            /\ req[r].status = 200 /\ req[q].status = 200
            /\ req[r].body = fetch_profile_data(ens_name)
            /\ req[q].body = req[r].body
            /\ Cardinality(Matching(ens_name)) = 1
            /\ store = Matching(ens_name)
            /\ RowOf(store, ens_name).profile_data = fetch_profile_data(ens_name)

\* both GETs missed the record and fetched; one INSERT was applied, the other hit the
\* unique index and its IntegrityError was dropped
C17_Reached ==
    \E r, q \in Reqs, ens_name \in Names :
        /\ FirstTimeGets(r, q, ens_name)
        /\ req[r].fetches = 1 /\ req[r].writes = 1 /\ ~req[r].raised
        /\ req[q].fetches = 1 /\ req[q].writes = 0 /\ req[q].raised

\* C18: a GET of a stale record leaves in the table exactly the synthesized document
\* of the name, placeholder avatar and placeholder farcaster_stats, and nothing of
\* the document the record held, whatever a PUT had left there.
C18_RefreshDropsPartialUpdate ==
    \A r \in Reqs, ens_name \in Names :
        StaleGet(r, ens_name) =>
            LET stored == RowOf(store, ens_name).profile_data
            IN /\ DOMAIN stored = {"ens_name", "avatar", "farcaster_stats"}
               /\ stored.ens_name = ens_name
               /\ stored.avatar = fetch_profile_data(ens_name).avatar
               /\ stored.farcaster_stats = fetch_farcaster_stats(ens_name)

\* the stale record was created by the PUT answered just before, and held the
\* avatar and the farcaster_stats that PUT returned
C18_Reached ==
    \E r \in Reqs, ens_name \in Names :
        /\ StaleGet(r, ens_name)
        /\ Len(log) >= 1
        /\ Last.kind = "put" /\ Last.ens_name = ens_name /\ Last.status = 200
        /\ "avatar" \in DOMAIN Last.profile_update
        /\ RowOf(before.store, ens_name).profile_data = Last.body
        /\ Last.body.avatar # RowOf(store, ens_name).profile_data.avatar
        /\ Last.body.farcaster_stats # RowOf(store, ens_name).profile_data.farcaster_stats

\* a GET of ens_name has its response less than an hour after the clock reading of
\* the successful PUT of ens_name answered just before it
GetSoonAfterPut(r, ens_name) ==
    /\ Answered(r, "get", ens_name)
    /\ Len(log) >= 1
    /\ Last.kind = "put" /\ Last.ens_name = ens_name /\ Last.status = 200
    /\ clock - Last.at < TTL

\* C19: after a successful PUT, whatever its body and however old the record it
\* found, a GET of the name made less than an hour after the PUT read the clock
\* fetches nothing, writes nothing and returns the stored profile_data.
C19_PutRestartsFreshness ==
    \A r \in Reqs, ens_name \in Names :
        GetSoonAfterPut(r, ens_name) =>
            /\ req[r].fetches = 0
            /\ req[r].writes = 0
            /\ ~req[r].raised
            /\ store = before.store
            /\ req[r].status = 200
            /\ Has(store, ens_name)
            /\ req[r].body = RowOf(store, ens_name).profile_data

\* the PUT had no allow-listed field and found a stale record
C19_Reached ==
    \E r \in Reqs, ens_name \in Names :
        /\ GetSoonAfterPut(r, ens_name)
        /\ allowed_fields \cap DOMAIN Last.profile_update = {}
        /\ Last.found = "stale"
        /\ clock > Last.at

====
